---- MODULE Spec2Model ----
(***************************************************************************)
(* A model of app/routes/_index.tsx of the AI recipe generator: the        *)
(* server-side `action` (form coercion, validation, prompt construction,   *)
(* one chat-completion call, result mapping) and the client-side form      *)
(* state of the `Index` component (two insertion-ordered sets of strings   *)
(* with "include common items" checkboxes).                                *)
(*                                                                         *)
(* Representation.                                                         *)
(*  - Text that the program only copies (ingredientsList, equipmentList,   *)
(*    mealName, the prompt) is a TLA+ string; template literals are \o.    *)
(*  - Text that the program parses (numAdults, numChildren) is a tuple of  *)
(*    one-character strings, so that StringToNumber can scan it.           *)
(*  - A JavaScript number is a record standing for NaN, an infinity or a   *)
(*    finite IEEE-754 double; literals and sums round as doubles do.       *)
(*  - A JavaScript Set is a duplicate-free sequence (insertion order).     *)
(***************************************************************************)
EXTENDS Integers, Sequences, FiniteSets, TLC

VARIABLES
  pc,             \* position of the current invocation of `action`
  request,        \* the request that `action` was called with
  formData,       \* the submitted form: a function on the fields present
  params,         \* the params object of line 74 (<<>> until it is built)
  peopleStrings,  \* generateRequest's local of line 43
  aiRequest,      \* the instruction text built by generateRequest
  sent,           \* the completion requests handed to createChatCompletion
  result,         \* the value `action` returned
  errLog,         \* number of console.error calls
  outcome,        \* what createChatCompletion did for this invocation
  ingredients,    \* Index: the `ingredients` state
  equipment,      \* Index: the `equipment` state
  checked,        \* Index: the DOM state of the two checkboxes
  added,          \* Index: the (type, thing) pairs addThing has inserted
  lastOp,         \* Index: the last handler that ran, with its arguments
  nOps            \* Index: number of handlers run so far

serverVars == <<pc, request, formData, params, peopleStrings, aiRequest, sent,
                result, errLog, outcome>>
clientVars == <<ingredients, equipment, checked, added, lastOp, nOps>>
vars == <<pc, request, formData, params, peopleStrings, aiRequest, sent,
          result, errLog, outcome, ingredients, equipment, checked, added,
          lastOp, nOps>>

(***************************************************************************)
(* Bounds of the model.                                                    *)
(***************************************************************************)
\* Longest raw text of a numeric form field.
MaxNumLen == 2
\* Largest head count given to generateRequest in SpecPrompt.
MaxCount == 3
\* Number of client-side handlers run in SpecClient.
MaxOps == 4


(***************************************************************************)
(* Natural numbers of any size: little-endian sequences of limbs in base   *)
(* LimbBase, without high zero limbs.  They carry the digits of a literal  *)
(* and the significands of the IEEE-754 doubles that JavaScript computes   *)
(* with.  The operations are functions, applied to values; those that      *)
(* carry from limb to limb split the limbs in halves.                      *)
(***************************************************************************)
LimbBits == 15
LimbBase == 32768

BigNat == Seq(Nat)

Max(a, b) == IF a >= b THEN a ELSE b

Min(a, b) == IF a <= b THEN a ELSE b

Abs(n) == IF n < 0 THEN -n ELSE n

RECURSIVE Pow10(_)
Pow10(k) == IF k = 0 THEN 1 ELSE 10 * Pow10(k - 1)

RECURSIVE Pow2(_)
Pow2(k) == IF k = 0 THEN 1 ELSE 2 * Pow2(k - 1)

BitLen[n \in Nat] == IF n = 0 THEN 0 ELSE 1 + BitLen[n \div 2]

\* Number of low zero bits of n > 0.
LowZeroBits[n \in Nat] == IF n % 2 = 1 THEN 0 ELSE 1 + LowZeroBits[n \div 2]

Zeros(k) == [i \in 1..k |-> 0]

\* x without its high zero limbs.
BigNorm[x \in BigNat] ==
  IF \A i \in 1..Len(x) : x[i] = 0 THEN <<>>
  ELSE SubSeq(x, 1, CHOOSE i \in 1..Len(x) :
                      x[i] # 0 /\ \A j \in (i + 1)..Len(x) : x[j] = 0)

BigFromInt[n \in Nat] ==
  IF n = 0 THEN <<>> ELSE <<n % LimbBase>> \o BigFromInt[n \div LimbBase]

\* The integer x, for x below 2^31.
BigToInt[x \in BigNat] ==
  IF x = <<>> THEN 0 ELSE x[1] + LimbBase * BigToInt[Tail(x)]

\* Limbs and the carry (or borrow) out of them, as one number.
WithCarry(p) == IF p.carry = 0 THEN p.limbs ELSE Append(p.limbs, p.carry)

\* The Len(x) low limbs of x * d + c and the carry out of them, for d and c
\* of at most a limb.
MulLimbs[x \in BigNat, d \in Nat, c \in Nat] ==
  IF x = <<>> THEN [limbs |-> <<>>, carry |-> c]
  ELSE IF Len(x) = 1
    THEN [limbs |-> <<(x[1] * d + c) % LimbBase>>,
          carry |-> (x[1] * d + c) \div LimbBase]
  ELSE LET lo == MulLimbs[SubSeq(x, 1, Len(x) \div 2), d, c]
           hi == MulLimbs[SubSeq(x, Len(x) \div 2 + 1, Len(x)), d, lo.carry]
       IN  [limbs |-> lo.limbs \o hi.limbs, carry |-> hi.carry]

\* x * d for a limb-sized d.
BigMulSmall[x \in BigNat, d \in Nat] == BigNorm[WithCarry(MulLimbs[x, d, 0])]

\* Quotient (Len(x) limbs) and remainder of r * LimbBase^Len(x) + x by a
\* limb-sized d, for r < d: the high half is divided first.
DivLimbs[x \in BigNat, d \in Nat, r \in Nat] ==
  IF x = <<>> THEN [q |-> <<>>, r |-> r]
  ELSE IF Len(x) = 1
    THEN [q |-> <<(r * LimbBase + x[1]) \div d>>,
          r |-> (r * LimbBase + x[1]) % d]
  ELSE LET hi == DivLimbs[SubSeq(x, Len(x) \div 2 + 1, Len(x)), d, r]
           lo == DivLimbs[SubSeq(x, 1, Len(x) \div 2), d, hi.r]
       IN  [q |-> lo.q \o hi.q, r |-> lo.r]

\* Quotient and remainder of x by a limb-sized d.
BigDivRem[x \in BigNat, d \in Nat] ==
  [q |-> BigNorm[DivLimbs[x, d, 0].q], r |-> DivLimbs[x, d, 0].r]

\* Limbs of x + y + c and the carry out of them, for x and y of one length.
AddLimbs[x \in BigNat, y \in BigNat, c \in Nat] ==
  IF x = <<>> THEN [limbs |-> <<>>, carry |-> c]
  ELSE IF Len(x) = 1
    THEN [limbs |-> <<(x[1] + y[1] + c) % LimbBase>>,
          carry |-> (x[1] + y[1] + c) \div LimbBase]
  ELSE LET lo == AddLimbs[SubSeq(x, 1, Len(x) \div 2),
                          SubSeq(y, 1, Len(x) \div 2), c]
           hi == AddLimbs[SubSeq(x, Len(x) \div 2 + 1, Len(x)),
                          SubSeq(y, Len(x) \div 2 + 1, Len(x)), lo.carry]
       IN  [limbs |-> lo.limbs \o hi.limbs, carry |-> hi.carry]

BigAdd[x \in BigNat, y \in BigNat] ==
  WithCarry(AddLimbs[x \o Zeros(Len(y) - Len(x)), y \o Zeros(Len(x) - Len(y)),
                     0])

\* Limbs of x - y - c and the borrow out of them, for x and y of one length.
SubLimbs[x \in BigNat, y \in BigNat, c \in Nat] ==
  IF x = <<>> THEN [limbs |-> <<>>, carry |-> c]
  ELSE IF Len(x) = 1
    THEN [limbs |-> <<(x[1] - y[1] - c) % LimbBase>>,
          carry |-> IF x[1] - y[1] - c < 0 THEN 1 ELSE 0]
  ELSE LET lo == SubLimbs[SubSeq(x, 1, Len(x) \div 2),
                          SubSeq(y, 1, Len(x) \div 2), c]
           hi == SubLimbs[SubSeq(x, Len(x) \div 2 + 1, Len(x)),
                          SubSeq(y, Len(x) \div 2 + 1, Len(x)), lo.carry]
       IN  [limbs |-> lo.limbs \o hi.limbs, carry |-> hi.carry]

\* x - y for x >= y.
BigSub[x \in BigNat, y \in BigNat] ==
  BigNorm[SubLimbs[x, y \o Zeros(Len(x) - Len(y)), 0].limbs]

\* -1, 0 or 1 as x is below, equal to or above y.
BigCmp[x \in BigNat, y \in BigNat] ==
  IF Len(x) # Len(y) THEN (IF Len(x) < Len(y) THEN -1 ELSE 1)
  ELSE IF x = y THEN 0
  ELSE IF \E i \in 1..Len(x) :
            x[i] < y[i] /\ \A j \in (i + 1)..Len(x) : x[j] = y[j]
    THEN -1
  ELSE 1

BigBitLen[x \in BigNat] ==
  IF x = <<>> THEN 0 ELSE LimbBits * (Len(x) - 1) + BitLen[x[Len(x)]]

\* Number of low zero bits of x # 0.
LowLimb(x) == CHOOSE i \in 1..Len(x) : x[i] # 0 /\ \A j \in 1..(i - 1) : x[j] = 0

BigLowZeros[x \in BigNat] ==
  LimbBits * (LowLimb(x) - 1) + LowZeroBits[x[LowLimb(x)]]

BigOdd[x \in BigNat] == x # <<>> /\ x[1] % 2 = 1

\* x * 2^s.
BigShl[x \in BigNat, s \in Nat] ==
  IF x = <<>> THEN <<>>
  ELSE BigMulSmall[Zeros(s \div LimbBits) \o x, Pow2(s % LimbBits)]

\* Results of a division: with its remainder, or with whether it or an
\* earlier division left one.
Divided == [q : BigNat, r : Nat]

Truncated == [q : BigNat, sticky : BOOLEAN]

Sticky[d \in Divided, sticky \in BOOLEAN] ==
  [q |-> d.q, sticky |-> sticky \/ d.r # 0]

\* floor(x / 2^s), and whether a one bit was shifted out.
BigShr[x \in BigNat, s \in Nat] ==
  IF s \div LimbBits >= Len(x) THEN [q |-> <<>>, sticky |-> x # <<>>]
  ELSE Sticky[BigDivRem[SubSeq(x, s \div LimbBits + 1, Len(x)),
                        Pow2(s % LimbBits)],
              \E i \in 1..(s \div LimbBits) : x[i] # 0]

\* x * 10^k.
BigMulPow10[x \in BigNat, k \in Nat] ==
  IF x = <<>> \/ k = 0 THEN x
  ELSE IF k <= 4 THEN BigMulSmall[x, Pow10(k)]
  ELSE BigMulPow10[BigMulPow10[x, k \div 2], k - k \div 2]

\* 10^k.
BigTen(k) == BigMulPow10[<<1>>, k]

\* floor(x.q / 10^k), and whether a remainder was left.
BigDivPow10[x \in Truncated, k \in Nat] ==
  IF k = 0 THEN x
  ELSE IF k <= 4 THEN Sticky[BigDivRem[x.q, Pow10(k)], x.sticky]
  ELSE BigDivPow10[BigDivPow10[x, k \div 2], k - k \div 2]

\* The decimal digits of x, high digit first.
BigDigits[x \in BigNat] ==
  IF x = <<>> THEN <<>>
  ELSE Append(BigDigits[BigDivRem[x, 10].q], ToString(BigDivRem[x, 10].r))

(***************************************************************************)
(* JavaScript numbers (IEEE-754 binary64).  A number is one of             *)
(*   [kind |-> "nan"]                                                      *)
(*   [kind |-> "inf", neg]          +Infinity or -Infinity                 *)
(*   [kind |-> "dec", m, e]         the double nearest to m / 10^e         *)
(*   [kind |-> "bin", neg, mant, exp]   the double (-1)^neg * mant * 2^exp *)
(* The value of a text is "dec" when Number.prototype.toString prints the  *)
(* double with at most nine digits (m holds them, and m / 10^e is what is  *)
(* printed), and "bin" otherwise, with an odd mant.  The result of an      *)
(* addition that rounds is "bin".  The sign of zero is not recorded:       *)
(* nothing the program does tells -0 from 0.                               *)
(***************************************************************************)
\* Bits of a significand, exponent of the least subnormal bit, and the power
\* of two that no finite double reaches.
Precision == 53
MinExp == -1074
MaxExp == 1024

NaN == [kind |-> "nan"]

Infinity(neg) == [kind |-> "inf", neg |-> neg]

FromInt(n) == [kind |-> "dec", m |-> n, e |-> 0]

Zero == FromInt(0)

Decs == [kind : {"dec"}, m : Int, e : Int]

Bins == [kind : {"bin"}, neg : BOOLEAN, mant : BigNat, exp : Int]

\* The one record that stands for m / 10^e, for m below 10^9: an integer
\* below 10^9 has e = 0, a fraction has no trailing zero, a larger integer
\* has 9 digits.
RECURSIVE Normalise(_, _)
Normalise(m, e) ==
  IF m = 0 THEN Zero
  ELSE IF m % 10 = 0 /\ (e > 0 \/ Abs(m) >= Pow10(9))
    THEN Normalise(m \div 10, e - 1)
  ELSE IF e < 0 /\ Abs(m) < Pow10(8) THEN Normalise(m * 10, e + 1)
  ELSE [kind |-> "dec", m |-> m, e |-> e]

\* The double (-1)^neg * mant * 2^exp, for mant of at most Precision bits
\* above exp >= MinExp: infinite from 2^1024.
Finite[neg \in BOOLEAN, mant \in BigNat, exp \in Int] ==
  IF mant = <<>> THEN [kind |-> "bin", neg |-> FALSE, mant |-> <<>>, exp |-> 0]
  ELSE IF BigBitLen[mant] + exp > MaxExp THEN Infinity(neg)
  ELSE [kind |-> "bin", neg |-> neg,
        mant |-> BigShr[mant, BigLowZeros[mant]].q,
        exp |-> exp + BigLowZeros[mant]]

\* q + guard/2 (and more when rest) times 2^exp, rounded to nearest, ties to
\* even.
RoundHalf[neg \in BOOLEAN, q \in BigNat, guard \in BOOLEAN, rest \in BOOLEAN, exp \in Int] ==
  Finite[neg,
         IF guard /\ (rest \/ BigOdd[q]) THEN BigAdd[q, <<1>>] ELSE q,
         exp]

\* n * 2^x with the last shift bits of n rounded away.
RoundBits[neg \in BOOLEAN, n \in BigNat, x \in Int, sticky \in BOOLEAN, shift \in Nat] ==
  IF shift = 0 THEN Finite[neg, n, x]
  ELSE RoundHalf[neg, BigShr[n, shift].q, BigOdd[BigShr[n, shift - 1].q],
                 sticky \/ BigShr[n, shift - 1].sticky, x + shift]

\* The double nearest to n * 2^x (plus a fraction of the last bit of n when
\* sticky), ties to even; subnormal below 2^-1022, infinite from 2^1024.
RoundToDouble[neg \in BOOLEAN, n \in BigNat, x \in Int, sticky \in BOOLEAN] ==
  RoundBits[neg, n, x, sticky,
            Max(Max(BigBitLen[n] - Precision, MinExp - x), 0)]

\* Limbs by which m is shifted up before the division by 10^e, so that the
\* quotient has more bits than a significand.
ScaleLimbs(e) == (4 * e + Precision + 3) \div LimbBits + 1

\* The double nearest to d.q * 2^x, d.q being a truncated quotient.
RoundTruncated[neg \in BOOLEAN, d \in Truncated, x \in Int] ==
  RoundToDouble[neg, d.q, x, d.sticky]

\* The double nearest to (-1)^neg * m / 10^e.
DecimalToDouble[neg \in BOOLEAN, m \in BigNat, e \in Int] ==
  IF e <= 0 THEN RoundToDouble[neg, BigMulPow10[m, -e], 0, FALSE]
  ELSE RoundTruncated[neg,
                      BigDivPow10[[q |-> BigShl[m, LimbBits * ScaleLimbs(e)],
                                   sticky |-> FALSE], e],
                      -(LimbBits * ScaleLimbs(e))]

\* The double that a "dec" stands for.
DecToBin[a \in Decs] == DecimalToDouble[a.m < 0, BigFromInt[Abs(a.m)], a.e]

ToBin(a) == IF a.kind = "dec" THEN DecToBin[a] ELSE a

\* (-1)^xneg * p + (-1)^yneg * q, times 2^exp: the exact sum, rounded once.
AddAligned[xneg \in BOOLEAN, p \in BigNat, yneg \in BOOLEAN, q \in BigNat, exp \in Int] ==
  IF xneg = yneg THEN RoundToDouble[xneg, BigAdd[p, q], exp, FALSE]
  ELSE IF BigCmp[p, q] >= 0 THEN RoundToDouble[xneg, BigSub[p, q], exp, FALSE]
  ELSE RoundToDouble[yneg, BigSub[q, p], exp, FALSE]

\* The power of two that |x| is below.
Top(x) == BigBitLen[x.mant] + x.exp

\* x + y on finite doubles; an operand below a quarter of the last bit of
\* the other is rounded away.
BinAdd[x \in Bins, y \in Bins] ==
  IF x.mant = <<>> THEN y
  ELSE IF y.mant = <<>> THEN x
  ELSE IF Top(x) > Top(y) + Precision + 2 THEN x
  ELSE IF Top(y) > Top(x) + Precision + 2 THEN y
  ELSE AddAligned[x.neg, BigShl[x.mant, x.exp - Min(x.exp, y.exp)],
                  y.neg, BigShl[y.mant, y.exp - Min(x.exp, y.exp)],
                  Min(x.exp, y.exp)]

BinSign(x) == IF x.mant = <<>> THEN 0 ELSE IF x.neg THEN -1 ELSE 1

\* -1, 0 or 1 as |x| is below, equal to or above |y|, for non-zero doubles.
BinCmpMag[x \in Bins, y \in Bins] ==
  IF Top(x) # Top(y) THEN (IF Top(x) < Top(y) THEN -1 ELSE 1)
  ELSE BigCmp[BigShl[x.mant, x.exp - Min(x.exp, y.exp)],
              BigShl[y.mant, y.exp - Min(x.exp, y.exp)]]

BinLess[x \in Bins, y \in Bins] ==
  IF BinSign(x) # BinSign(y) THEN BinSign(x) < BinSign(y)
  ELSE IF BinSign(x) = 0 THEN FALSE
  ELSE IF BinSign(x) = 1 THEN BinCmpMag[x, y] < 0
  ELSE BinCmpMag[x, y] > 0

\* An integer whose sums are integers below 10^9: doubles add them exactly.
IsSmallInt(a) == a.kind = "dec" /\ a.e = 0 /\ Abs(a.m) < Pow10(8)

\* A decimal that can be compared by cross-multiplication: distinct literals
\* of up to 15 digits are distinct doubles in the same order.
IsShortDec(a) ==
  a.kind = "dec" /\ a.e >= 0 /\ a.e <= 4 /\ Abs(a.m) < Pow10(4)

\* a + b on numbers.
Add(a, b) ==
  IF a.kind = "nan" \/ b.kind = "nan" THEN NaN
  ELSE IF a.kind = "inf"
    THEN (IF b.kind = "inf" /\ b.neg # a.neg THEN NaN ELSE a)
  ELSE IF b.kind = "inf" THEN b
  ELSE IF IsSmallInt(a) /\ IsSmallInt(b) THEN FromInt(a.m + b.m)
  ELSE BinAdd[ToBin(a), ToBin(b)]

\* a < b, a > b on numbers: false whenever an operand is NaN.
LessThan(a, b) ==
  IF a.kind = "nan" \/ b.kind = "nan" THEN FALSE
  ELSE IF a.kind = "inf" THEN a.neg /\ ~(b.kind = "inf" /\ b.neg)
  ELSE IF b.kind = "inf" THEN ~b.neg
  ELSE IF IsShortDec(a) /\ IsShortDec(b)
    THEN a.m * Pow10(b.e) < b.m * Pow10(a.e)
  ELSE BinLess[ToBin(a), ToBin(b)]

GreaterThan(a, b) == LessThan(b, a)

\* ToBoolean of a number: NaN and 0 are falsy.
Truthy(a) ==
  CASE a.kind = "nan" -> FALSE
    [] a.kind = "inf" -> TRUE
    [] a.kind = "dec" -> a.m # 0
    [] a.kind = "bin" -> a.mant # <<>>

(***************************************************************************)
(* Number::toString: the decimal with the fewest digits that reads back as *)
(* the double and, among those, the one nearest to it.                     *)
(***************************************************************************)
\* Digits of the decimal from which the shorter ones are cut, two more than
\* the most that a double needs.
FrameDigits == 19

\* floor(mant * 2^exp / 10^p), and whether a remainder was left.
ScaleDown[mant \in BigNat, exp \in Int, p \in Int] ==
  IF p <= 0
    THEN (IF exp >= 0
            THEN [q |-> BigShl[BigMulPow10[mant, -p], exp], sticky |-> FALSE]
            ELSE BigShr[BigMulPow10[mant, -p], -exp])
  ELSE IF exp >= 0
    THEN BigDivPow10[[q |-> BigShl[mant, exp], sticky |-> FALSE], p]
  ELSE BigDivPow10[BigShr[mant, -exp], p]

\* About log10(2^(t-1)) + 1: the number of digits before the point of a
\* value from 2^(t-1) up to 2^t, or one less.
DigitsEstimate(t) == ((t - 1) * 30103) \div 100000 + 1

\* -1, 0 or 1 as q has fewer than, exactly or more than FrameDigits digits.
FrameError[q \in BigNat] ==
  IF BigCmp[q, BigTen(FrameDigits - 1)] < 0 THEN -1
  ELSE IF BigCmp[q, BigTen(FrameDigits)] >= 0 THEN 1
  ELSE 0

\* The n with 10^(n-1) <= x < 10^n, for a positive double x.
DecExp[x \in Bins] ==
  DigitsEstimate(Top(x))
  + FrameError[ScaleDown[x.mant, x.exp,
                         DigitsEstimate(Top(x)) - FrameDigits].q]

\* Whether s / 10^e reads back as the positive double x.
RoundTrips[x \in Bins, s \in BigNat, e \in Int] ==
  DecimalToDouble[FALSE, s, e] = x

\* Whether lo is the nearer of lo and lo + 1 (the even one when they are as
\* near): r is what the value has above lo, in units of which w make one of
\* lo, and sticky tells that it has a fraction of a unit more.
LowNearer[lo \in BigNat, r \in BigNat, w \in BigNat, sticky \in BOOLEAN] ==
  \/ BigCmp[BigMulSmall[r, 2], w] < 0
  \/ BigCmp[BigMulSmall[r, 2], w] = 0 /\ ~sticky /\ ~BigOdd[lo]

\* A decimal s * 10^(n-k) of k digits.
Shorts == [s : BigNat, k : Nat, n : Int]

\* The decimal of x with at least k digits: f is floor(x / 10^(n -
\* FrameDigits)); the candidates of k digits are the two around x.
ShortestFrom[x \in Bins, n \in Int, f \in Truncated, k \in Nat] ==
  LET lo   == BigDivPow10[f, FrameDigits - k].q
      hi   == BigAdd[lo, <<1>>]
      okLo == RoundTrips[x, lo, k - n]
      okHi == RoundTrips[x, hi, k - n]
      r    == BigSub[f.q, BigMulPow10[lo, FrameDigits - k]]
  IN  IF ~okLo /\ ~okHi THEN ShortestFrom[x, n, f, k + 1]
      ELSE IF okLo /\ (~okHi \/ LowNearer[lo, r, BigTen(FrameDigits - k),
                                          f.sticky])
        THEN [s |-> lo, k |-> k, n |-> n]
      ELSE IF hi = BigTen(k) THEN [s |-> <<1>>, k |-> 1, n |-> n + 1]
      ELSE [s |-> hi, k |-> k, n |-> n]

\* The digits that Number::toString prints for a positive double x.
Shortest[x \in Bins] ==
  ShortestFrom[x, DecExp[x],
               ScaleDown[x.mant, x.exp, DecExp[x] - FrameDigits], 1]

Magnitude(x) == [x EXCEPT !.neg = FALSE]

Signed(neg, n) == IF neg THEN -n ELSE n

\* The number that stands for the double x printed as d.
FromShortest[x \in Bins, d \in Shorts] ==
  IF d.k <= 9 THEN Normalise(Signed(x.neg, BigToInt[d.s]), d.k - d.n) ELSE x

\* The number that stands for a double.
Canon[x \in Bins \cup {Infinity(FALSE), Infinity(TRUE)}] ==
  IF x.kind = "inf" THEN x
  ELSE IF x.mant = <<>> THEN Zero
  ELSE IF x.exp >= 0 /\ Top(x) <= 29
    THEN FromInt(Signed(x.neg, BigToInt[BigShl[x.mant, x.exp]]))
  ELSE FromShortest[x, Shortest[Magnitude(x)]]

RECURSIVE PadZeros(_, _)
PadZeros(s, k) == IF k <= 0 THEN s ELSE PadZeros("0" \o s, k - 1)

RECURSIVE NumDigits(_)
NumDigits(n) == IF n < 10 THEN 1 ELSE 1 + NumDigits(n \div 10)

RECURSIVE TrailingZeros(_)
TrailingZeros(n) ==
  IF n = 0 \/ n % 10 # 0 THEN 0 ELSE 1 + TrailingZeros(n \div 10)

\* The characters of ds as one string.
RECURSIVE Join(_)
Join(ds) == IF ds = <<>> THEN "" ELSE Head(ds) \o Join(Tail(ds))

\* Number::toString of a positive decimal: ds holds its significant digits,
\* and its value is below 10^n and not below 10^(n-1).
DecimalToString(ds, n) ==
  IF Len(ds) <= n /\ n <= 21 THEN Join(ds) \o PadZeros("", n - Len(ds))
  ELSE IF 0 < n /\ n <= 21
    THEN Join(SubSeq(ds, 1, n)) \o "." \o Join(SubSeq(ds, n + 1, Len(ds)))
  ELSE IF -6 < n /\ n <= 0 THEN "0." \o PadZeros("", -n) \o Join(ds)
  ELSE Head(ds)
       \o (IF Len(ds) = 1 THEN "" ELSE "." \o Join(Tail(ds)))
       \o (IF n - 1 < 0 THEN "e-" ELSE "e+") \o ToString(Abs(n - 1))

\* Number.prototype.toString, as the template literals of lines 44-45 apply
\* it.
NumberToString(a) ==
  CASE a.kind = "nan" -> "NaN"
    [] a.kind = "inf" -> IF a.neg THEN "-Infinity" ELSE "Infinity"
    [] a.kind = "dec" ->
         IF a.m = 0 THEN "0"
         ELSE (IF a.m < 0 THEN "-" ELSE "")
              \o DecimalToString(
                   BigDigits[BigFromInt[Abs(a.m)
                                        \div Pow10(TrailingZeros(Abs(a.m)))]],
                   NumDigits(Abs(a.m)) - a.e)
    [] a.kind = "bin" ->
         IF a.mant = <<>> THEN "0"
         ELSE (IF a.neg THEN "-" ELSE "")
              \o DecimalToString(BigDigits[Shortest[Magnitude(a)].s],
                                 Shortest[Magnitude(a)].n)

(***************************************************************************)
(* StringToNumber: the unary + of lines 63-64 applied to a text.           *)
(* StrWhiteSpace is trimmed, the empty text is 0, and what is left is a    *)
(* StrNumericLiteral (a signed decimal with optional fraction and          *)
(* exponent, a signed Infinity, or an unsigned 0x / 0o / 0b integer) or    *)
(* the result is NaN.  The value is the double nearest to the literal.  A  *)
(* character that a TLA+ string cannot hold is written as its code point,  *)
(* "U+00A0".                                                               *)
(***************************************************************************)
Digits == {"0", "1", "2", "3", "4", "5", "6", "7", "8", "9"}

\* WhiteSpace and LineTerminator of the language.
WhiteSpace ==
  {" ", "\t", "\n", "\r", "\f", "U+000B", "U+00A0", "U+1680", "U+2000",
   "U+2001", "U+2002", "U+2003", "U+2004", "U+2005", "U+2006", "U+2007",
   "U+2008", "U+2009", "U+200A", "U+2028", "U+2029", "U+202F", "U+205F",
   "U+3000", "U+FEFF"}

DigitVal(c) ==
  CASE c = "0" -> 0 [] c = "1" -> 1 [] c = "2" -> 2 [] c = "3" -> 3
    [] c = "4" -> 4 [] c = "5" -> 5 [] c = "6" -> 6 [] c = "7" -> 7
    [] c = "8" -> 8 [] c = "9" -> 9

\* Value of a digit of a radix-prefixed literal; NotADigit for other characters.
NotADigit == 99

HexVal(c) ==
  CASE c \in Digits -> DigitVal(c)
    [] c \in {"a", "A"} -> 10 [] c \in {"b", "B"} -> 11
    [] c \in {"c", "C"} -> 12 [] c \in {"d", "D"} -> 13
    [] c \in {"e", "E"} -> 14 [] c \in {"f", "F"} -> 15
    [] OTHER -> NotADigit

RadixOf(c) ==
  CASE c \in {"x", "X"} -> 16
    [] c \in {"o", "O"} -> 8
    [] c \in {"b", "B"} -> 2
    [] OTHER -> 0

\* s from its first character that is not in the set, and s up to its last.
DropLeft(s, set) ==
  IF \A i \in 1..Len(s) : s[i] \in set THEN <<>>
  ELSE SubSeq(s, CHOOSE i \in 1..Len(s) :
                   s[i] \notin set /\ \A j \in 1..(i - 1) : s[j] \in set,
              Len(s))

DropRight(s, set) ==
  IF \A i \in 1..Len(s) : s[i] \in set THEN <<>>
  ELSE SubSeq(s, 1, CHOOSE i \in 1..Len(s) :
                      s[i] \notin set /\ \A j \in (i + 1)..Len(s) : s[j] \in set)

TrimLeft(s) == DropLeft(s, WhiteSpace)

TrimRight(s) == DropRight(s, WhiteSpace)

Trim(s) == TrimRight(TrimLeft(s))

StripLeadingZeros(s) == DropLeft(s, {"0"})

StripTrailingZeros(s) == DropRight(s, {"0"})

\* The value of a text of decimal digits.
DigitsToBig[s \in Seq(STRING)] ==
  IF s = <<>> THEN <<>>
  ELSE IF Len(s) = 1 THEN BigFromInt[DigitVal(s[1])]
  ELSE BigAdd[BigMulPow10[DigitsToBig[SubSeq(s, 1, Len(s) \div 2)],
                          Len(s) - Len(s) \div 2],
              DigitsToBig[SubSeq(s, Len(s) \div 2 + 1, Len(s))]]

\* The value of a text of digits of a radix 2^bits.
RadixToBig[s \in Seq(STRING), bits \in Nat] ==
  IF s = <<>> THEN <<>>
  ELSE IF Len(s) = 1 THEN BigFromInt[HexVal(s[1])]
  ELSE BigAdd[BigShl[RadixToBig[SubSeq(s, 1, Len(s) \div 2), bits],
                     bits * (Len(s) - Len(s) \div 2)],
              RadixToBig[SubSeq(s, Len(s) \div 2 + 1, Len(s)), bits]]

IsDigit(c) == c \in Digits

IsDot(c) == c = "."

\* NonDecimalIntegerLiteral: 0x, 0o or 0b and at least one digit of the
\* radix.
IsRadixLiteral(t) ==
  /\ Len(t) >= 3
  /\ t[1] = "0"
  /\ RadixOf(t[2]) # 0
  /\ \A i \in 3..Len(t) : HexVal(t[i]) < RadixOf(t[2])

InfinityText == <<"I", "n", "f", "i", "n", "i", "t", "y">>

\* Positions of an exponent indicator.
ExpMarks(u) == {i \in 1..Len(u) : u[i] \in {"e", "E"}}

FirstMark(u) == CHOOSE i \in ExpMarks(u) : \A j \in ExpMarks(u) : i <= j

MantissaPart(u) ==
  IF ExpMarks(u) = {} THEN u ELSE SubSeq(u, 1, FirstMark(u) - 1)

ExponentPart(u) == SubSeq(u, FirstMark(u) + 1, Len(u))

\* The mantissa of a StrUnsignedDecimalLiteral: digits, at most one dot, and
\* at least one digit.
IsUnsignedDecimal(u) ==
  /\ \A i \in 1..Len(u) : IsDigit(u[i]) \/ IsDot(u[i])
  /\ Len(SelectSeq(u, IsDot)) <= 1
  /\ Len(SelectSeq(u, IsDigit)) >= 1

\* SignedInteger of an ExponentPart.
IsSignedInteger(x) ==
  LET d == IF x # <<>> /\ Head(x) \in {"-", "+"} THEN Tail(x) ELSE x
  IN  d # <<>> /\ \A i \in 1..Len(d) : IsDigit(d[i])

\* An exponent from which every literal is infinite or zero: a text has
\* fewer characters than this by far.
ExpCap == 1000000000

\* The value of the digits of an exponent, or ExpCap when it is above it.
CappedValue(d) ==
  IF Len(StripLeadingZeros(d)) > 9 THEN ExpCap
  ELSE BigToInt[DigitsToBig[StripLeadingZeros(d)]]

SignedIntegerValue(x) ==
  IF Head(x) = "-" THEN -CappedValue(Tail(x))
  ELSE IF Head(x) = "+" THEN CappedValue(Tail(x))
  ELSE CappedValue(x)

IsUnsignedDecimalLiteral(u) ==
  /\ IsUnsignedDecimal(MantissaPart(u))
  /\ ExpMarks(u) # {} => IsSignedInteger(ExponentPart(u))

\* Significant digits after which the digits of a literal bear on its double
\* only by not all being 0: a double, and a number half way between two
\* doubles, has fewer.
MaxSig == 800

\* The first MaxSig digits of sig, and a 1 for the rest: sig ends in a digit
\* that is not 0.
KeptDigits(sig) ==
  IF Len(sig) <= MaxSig THEN sig ELSE Append(SubSeq(sig, 1, MaxSig), "1")

\* The number sig / 10^e of a literal, sig being its digits from the first
\* to the last that is not 0: Infinity when it rounds to 2^1024 or more, 0
\* when it rounds to 0.  A literal of at most nine digits in the range of
\* the normal doubles is printed back with its own digits.
MakeNumber(sig, e) ==
  IF sig = <<>> THEN Zero
  ELSE IF Len(sig) - e > 310 THEN Infinity(FALSE)
  ELSE IF Len(sig) - e < -330 THEN Zero
  ELSE IF Len(sig) <= 9 /\ -300 <= Len(sig) - e /\ Len(sig) - e <= 308
    THEN Normalise(BigToInt[DigitsToBig[sig]], e)
  ELSE Canon[DecimalToDouble[FALSE, DigitsToBig[KeptDigits(sig)],
                             e - (Len(sig) - Len(KeptDigits(sig)))]]

UnsignedValue(u) ==
  LET mp   == MantissaPart(u)
      dots == {i \in 1..Len(mp) : IsDot(mp[i])}
      frac == IF dots = {} THEN 0 ELSE Len(mp) - (CHOOSE i \in dots : TRUE)
      all  == StripLeadingZeros(SelectSeq(mp, IsDigit))
      sig  == StripTrailingZeros(all)
      x    == IF ExpMarks(u) = {} THEN 0
              ELSE SignedIntegerValue(ExponentPart(u))
  IN  MakeNumber(sig, frac - (Len(all) - Len(sig)) - x)

Negate(a) ==
  CASE a.kind = "nan" -> a
    [] a.kind = "inf" -> Infinity(~a.neg)
    [] a.kind = "dec" -> [a EXCEPT !.m = -a.m]
    [] a.kind = "bin" -> [a EXCEPT !.neg = a.mant # <<>> /\ ~a.neg]

StringToNumber(s) ==
  LET t == Trim(s)
  IN  IF t = <<>> THEN Zero
      ELSE IF IsRadixLiteral(t)
        THEN Canon[RoundToDouble[FALSE,
                                 RadixToBig[SubSeq(t, 3, Len(t)),
                                            BitLen[RadixOf(t[2])] - 1],
                                 0, FALSE]]
      ELSE LET signed == Head(t) \in {"-", "+"}
               u      == IF signed THEN Tail(t) ELSE t
           IN  IF u = InfinityText THEN Infinity(Head(t) = "-")
               ELSE IF ~IsUnsignedDecimalLiteral(u) THEN NaN
               ELSE IF Head(t) = "-" THEN Negate(UnsignedValue(u))
               ELSE UnsignedValue(u)

(***************************************************************************)
(* Program constants.                                                      *)
(***************************************************************************)
\* COMMON_INGREDIENTS.split(', ') and COMMON_EQUIPMENT.split(', ').
COMMON_INGREDIENTS ==
  <<"Salt", "Pepper", "Olive oil", "Butter", "All-purpose flour", "Sugar",
    "Eggs", "Milk", "Garlic", "Onion", "Lemons", "White Vinegar",
    "Apple Cider Vinegar", "Soy sauce", "Baking powder", "Cumin">>

COMMON_EQUIPMENT == <<"Stove top", "Oven", "Microwave">>

ROLE ==
  "You are a trustworthy and experienced chef's assistant with an excellent grasp of cooking. You are also pragmatic and focus on dishes that are easy to assemble and use minimal ingredients."

MODEL_NAME == "gpt-3.5-turbo"

(***************************************************************************)
(* generateRequest.                                                        *)
(***************************************************************************)
One == FromInt(1)

\* PeopleStrings with the joiner written for "either" instead of "both".
PeopleStringsJoinEither(numAdults, numChildren) ==
  (IF Truthy(numAdults)
     THEN (IF GreaterThan(numAdults, One)
             THEN NumberToString(numAdults) \o " adults"
             ELSE "1 adult")
     ELSE "")
  \o (IF Truthy(numAdults) \/ Truthy(numChildren) THEN " and " ELSE "")
  \o (IF Truthy(numChildren)
        THEN (IF GreaterThan(numChildren, One)
                THEN NumberToString(numChildren) \o " children"
                ELSE "1 child")
        ELSE "")

\* Lines 43-47: the household clause.
PeopleStrings(numAdults, numChildren) ==
  (IF Truthy(numAdults)
     THEN (IF GreaterThan(numAdults, One)
             THEN NumberToString(numAdults) \o " adults"
             ELSE "1 adult")
     ELSE "")
  \o (IF Truthy(numAdults) /\ Truthy(numChildren) THEN " and " ELSE "")
  \o (IF Truthy(numChildren)
        THEN (IF GreaterThan(numChildren, One)
                THEN NumberToString(numChildren) \o " children"
                ELSE "1 child")
        ELSE "")

\* The fixed parts of the template of lines 49-54.
TplIngredients ==
  "Try to create a recipe with only these available ingredients: "
TplEquipment == ".\n  And available equipment: "
TplMeal == ".\n  This is for a "
TplFor == " for "
TplUsage ==
  ".\n  Not all ingredients or equipment need to be used. Do not assume I have other equipment or that I have any other ingredients.\n  "
TplFallback ==
  "If there's no viable recipe, such as the ingredients list doesn't include any protein,\n  do not assume I have other ingredients or equipment and tell me that there's no recipe."

GenerateRequest(p) ==
  TplIngredients \o p.ingredientsList
  \o TplEquipment \o p.equipmentList
  \o TplMeal \o p.meal
  \o TplFor \o PeopleStrings(p.numAdults, p.numChildren)
  \o TplUsage \o TplFallback

(***************************************************************************)
(* Inputs of the server-side action.                                       *)
(***************************************************************************)
\* Characters of the raw numeric fields: digits, sign, decimal point and a
\* letter.
NumChars == {"0", "1", "-", ".", "a"}

NumTexts == UNION {[1..n -> NumChars] : n \in 0..MaxNumLen}

IngredientTexts == {"", "Salt, Pepper"}

EquipmentTexts == {"", "Stove top"}

MealTexts == {"lunch"}

\* A form field that is absent, or present with one of the given values.
Entry(name, values) == {<<>>} \cup {name :> v : v \in values}

NoRequest == [kind |-> "none"]

\* The request of an invocation: its body is a form, or something that
\* request.formData() rejects (a JSON body, say).
FormRequest(fd) == [kind |-> "form", fields |-> fd]

OtherRequest == [kind |-> "other"]

\* What createChatCompletion can do: throw, or resolve to a response whose
\* data.choices is a sequence of choices; `message` and `content` are
\* optional.
Contents == {"", "Boil the pasta."}

Messages == {<<>>} \cup {"content" :> t : t \in Contents}

ChoiceValues == {<<>>} \cup {"message" :> msg : msg \in Messages}

OtherChoice == "message" :> ("content" :> "Second choice")

NoOutcome == [kind |-> "none"]

\* A call that throws, throws a value that JSON.stringify can or cannot
\* serialise (it cannot when the value holds a circular reference or a
\* BigInt, or has a toJSON that throws).
Outcomes ==
  {[kind |-> "throw", serialisable |-> b] : b \in BOOLEAN}
  \cup {[kind |-> "response", choices |-> cs] :
          cs \in {<<>>} \cup {<<ch>> : ch \in ChoiceValues}
                 \cup {<<ch, OtherChoice>> : ch \in ChoiceValues}}

(***************************************************************************)
(* The action of lines 57-116.                                             *)
(***************************************************************************)
\* formData.get(name) ?? dflt
GetOr(fd, name, dflt) == IF name \in DOMAIN fd THEN fd[name] ELSE dflt

\* Lines 60-66: the five constants read from the form.
Coerce(fd) ==
  [ingredientsList |-> GetOr(fd, "ingredientsList", ""),
   equipmentList   |-> GetOr(fd, "equipmentList", ""),
   numAdults       |-> StringToNumber(GetOr(fd, "numAdults", <<"0">>)),
   numChildren     |-> StringToNumber(GetOr(fd, "numChildren", <<"0">>)),
   meal            |-> GetOr(fd, "mealName", "dinner")]

\* Rejected without the check of equipmentList.
RejectedIgnoringEquipment(c) ==
  \/ c.ingredientsList = ""
  \/ LessThan(Add(c.numAdults, c.numChildren), One)

\* Rejected with the head count compared to 0 instead of 1.
RejectedBelowZero(c) ==
  \/ c.ingredientsList = ""
  \/ c.equipmentList = ""
  \/ LessThan(Add(c.numAdults, c.numChildren), Zero)

\* Line 68: the condition under which the action returns null at once.
Rejected(c) ==
  \/ c.ingredientsList = ""
  \/ c.equipmentList = ""
  \/ LessThan(Add(c.numAdults, c.numChildren), One)

\* CompletionRequest with the two messages in the other order.
CompletionRequestUserFirst(text) ==
  [model    |-> MODEL_NAME,
   messages |-> <<[role |-> "user", content |-> text],
                  [role |-> "system", content |-> ROLE]>>]

\* Lines 95-104.
CompletionRequest(text) ==
  [model    |-> MODEL_NAME,
   messages |-> <<[role |-> "system", content |-> ROLE],
                  [role |-> "user", content |-> text]>>]

NotReturned == [kind |-> "none"]
Null == [kind |-> "null"]

Generated(text) == [kind |-> "object", generatedOutput |-> text]

NoParams == <<>>

\* Line 57 to the await of line 58: the action is called with a request and
\* waits for request.formData().
ActionStart ==
  /\ pc = "idle"
  /\ \/ \E i \in Entry("ingredientsList", IngredientTexts),
           q \in Entry("equipmentList", EquipmentTexts),
           a \in Entry("numAdults", NumTexts),
           c \in Entry("numChildren", NumTexts),
           m \in Entry("mealName", MealTexts) :
          request' = FormRequest(i @@ q @@ a @@ c @@ m)
     \/ request' = OtherRequest
  /\ pc' = "reading"
  /\ UNCHANGED <<formData, params, peopleStrings, aiRequest, sent, result,
                 errLog, outcome>>
  /\ UNCHANGED clientVars

\* Line 58: request.formData() rejects, and the action throws at the await.
FormThrows ==
  /\ pc' = "threw"
  /\ UNCHANGED <<formData, params, peopleStrings, aiRequest, sent, result,
                 errLog, outcome>>
  /\ UNCHANGED clientVars

\* Lines 58-70: the form is read and fails the check of line 68.
Reject(fd) ==
  /\ Rejected(Coerce(fd))
  /\ formData' = fd
  /\ pc' = "returned"
  /\ result' = Null
  /\ UNCHANGED <<params, peopleStrings, aiRequest, sent, errLog, outcome>>
  /\ UNCHANGED clientVars

\* Lines 58-107: the form is read and passes the check of line 68; the
\* prompt is built and sent.  (The console.log of lines 91-93 writes the
\* prompt to the diagnostic log in development mode and changes nothing
\* the action reads.)
Accept(fd) ==
  /\ ~Rejected(Coerce(fd))
  /\ formData' = fd
  /\ params' = Coerce(fd)
  /\ peopleStrings' = PeopleStrings(Coerce(fd).numAdults, Coerce(fd).numChildren)
  /\ aiRequest' = GenerateRequest(Coerce(fd))
  /\ sent' = Append(sent, CompletionRequest(GenerateRequest(Coerce(fd))))
  /\ pc' = "awaiting"
  /\ UNCHANGED <<result, errLog, outcome>>
  /\ UNCHANGED clientVars

\* From the await of request.formData() to a throw, to the first return or
\* to the await of createChatCompletion.
ActionForm ==
  /\ pc = "reading"
  /\ \/ request.kind = "other" /\ FormThrows
     \/ request.kind = "form" /\ Reject(request.fields)
     \/ request.kind = "form" /\ Accept(request.fields)
  /\ UNCHANGED request

\* chatCompletion.data.choices[0].message?.content ?? '' ; the read of
\* choices[0].message throws when there is no first choice.
FirstContent(choices) ==
  LET choice == choices[1]
  IN  IF "message" \notin DOMAIN choice THEN ""
      ELSE IF "content" \notin DOMAIN choice["message"] THEN ""
      ELSE choice["message"]["content"]

\* ResponseResult with `|| null` semantics: empty text becomes no result.
ResponseResultNullWhenEmpty(choices) ==
  IF FirstContent(choices) = "" THEN Null
  ELSE Generated(FirstContent(choices))

\* Lines 109-111: the value returned when the call resolves.
ResponseResult(choices) == Generated(FirstContent(choices))

\* Whether the try block of lines 106-111 throws: the call itself throws
\* (network or API error), or the response has no first choice.
Throws(o) == o.kind = "throw" \/ Len(o.choices) = 0

\* Line 113: JSON.stringify(e), evaluated before console.error is called,
\* throws out of the catch block when e cannot be serialised.  The TypeError
\* of a missing first choice serialises to "{}".
StringifyThrows(o) == o.kind = "throw" /\ ~o.serialisable

\* Lines 106-115: the call resolves or throws, and the action returns.
Resume(o) ==
  /\ outcome' = o
  /\ IF Throws(o)
       THEN IF StringifyThrows(o)
              THEN /\ pc' = "threw"
                   /\ UNCHANGED <<errLog, result>>
              ELSE /\ errLog' = errLog + 1
                   /\ result' = Null
                   /\ pc' = "returned"
       ELSE /\ result' = ResponseResult(o.choices)
            /\ pc' = "returned"
            /\ UNCHANGED errLog
  /\ UNCHANGED <<request, formData, params, peopleStrings, aiRequest, sent>>
  /\ UNCHANGED clientVars

ActionResume ==
  /\ pc = "awaiting"
  /\ \E o \in Outcomes : Resume(o)

(***************************************************************************)
(* Index: the client-side form state (lines 184-282).                      *)
(***************************************************************************)
Types == {"ingredient", "equipment"}

\* What the user types into the two text fields.
ThingInputs == {"", "Salt", "Oven", "tofu"}

\* Set.prototype.has on an insertion-ordered set.
Has(things, thing) == \E i \in 1..Len(things) : things[i] = thing

\* new Set([...currentItems, ...arr]): the items of arr that are not yet
\* present are appended in order.
RECURSIVE AddAll(_, _)
AddAll(things, arr) ==
  IF arr = <<>> THEN things
  ELSE AddAll(IF Has(things, Head(arr)) THEN things
              ELSE Append(things, Head(arr)),
              Tail(arr))

\* Set.prototype.delete on a copy.
Delete(things, thing) == SelectSeq(things, LAMBDA x : x # thing)

\* thingsArr.forEach((item) => commonCopy.delete(item))
RECURSIVE DeleteAll(_, _)
DeleteAll(things, arr) ==
  IF arr = <<>> THEN things
  ELSE DeleteAll(Delete(things, Head(arr)), Tail(arr))

\* Lines 250-251: the common list of a type.
CommonThings(type) ==
  IF type = "ingredient" THEN COMMON_INGREDIENTS ELSE COMMON_EQUIPMENT

\* The state a type's setter updates.
ThingsOf(type, ing, eq) == IF type = "ingredient" THEN ing ELSE eq

\* Lines 215-219: the updater of addThing.
AddUpdater(currentItems, thing) ==
  IF thing = "" \/ Has(currentItems, thing) THEN currentItems
  ELSE Append(currentItems, thing)

\* ToggleUpdater that resets the set to the common list when checked.
ToggleUpdaterReplaces(currentItems, thingsArr, isChecked) ==
  IF isChecked THEN thingsArr
  ELSE DeleteAll(currentItems, thingsArr)

\* Lines 257-271: the updater of handleToggleCommonThings.
ToggleUpdater(currentItems, thingsArr, isChecked) ==
  IF isChecked THEN AddAll(currentItems, thingsArr)
  ELSE DeleteAll(currentItems, thingsArr)

\* setter(updater) for the setter of a type (lines 212, 253, 275).
SetThings(type, newThings) ==
  IF type = "ingredient"
    THEN ingredients' = newThings /\ UNCHANGED equipment
    ELSE equipment' = newThings /\ UNCHANGED ingredients

\* Lines 204-223, reached from handleEnter and handleClick with the value of
\* the type's text field.
AddThing ==
  /\ nOps < MaxOps
  /\ \E type \in Types, thing \in ThingInputs :
       LET cur == ThingsOf(type, ingredients, equipment)
       IN  /\ SetThings(type, AddUpdater(cur, thing))
           /\ added' = IF AddUpdater(cur, thing) # cur
                         THEN added \cup {<<type, thing>>}
                         ELSE added
           /\ lastOp' = [op |-> "add", type |-> type, thing |-> thing]
  /\ nOps' = nOps + 1
  /\ UNCHANGED checked
  /\ UNCHANGED serverVars

\* Lines 248-272: a click on a type's checkbox flips it, and the handler
\* reads the new value.
HandleToggleCommonThings ==
  /\ nOps < MaxOps
  /\ \E type \in Types :
       LET cur == ThingsOf(type, ingredients, equipment)
       IN  /\ checked' = [checked EXCEPT ![type] = ~checked[type]]
           /\ SetThings(type,
                        ToggleUpdater(cur, CommonThings(type), ~checked[type]))
           /\ lastOp' = [op |-> "toggle", type |-> type, thing |-> ""]
  /\ nOps' = nOps + 1
  /\ UNCHANGED added
  /\ UNCHANGED serverVars

\* Lines 274-282, reached from the remove icon of a listed thing.
RemoveThing ==
  /\ nOps < MaxOps
  /\ \E type \in Types :
       LET cur == ThingsOf(type, ingredients, equipment)
       IN  \E i \in 1..Len(cur) :
             /\ SetThings(type, Delete(cur, cur[i]))
             /\ lastOp' = [op |-> "remove", type |-> type, thing |-> cur[i]]
  /\ nOps' = nOps + 1
  /\ UNCHANGED <<checked, added>>
  /\ UNCHANGED serverVars

ClientInit ==
  /\ ingredients = COMMON_INGREDIENTS
  /\ equipment = COMMON_EQUIPMENT
  /\ checked = [ingredient |-> TRUE, equipment |-> TRUE]
  /\ added = {}
  /\ lastOp = [op |-> "none", type |-> "none", thing |-> ""]
  /\ nOps = 0

ServerInit ==
  /\ pc = "idle"
  /\ request = NoRequest
  /\ formData = <<>>
  /\ params = NoParams
  /\ peopleStrings = ""
  /\ aiRequest = ""
  /\ sent = <<>>
  /\ result = NotReturned
  /\ errLog = 0
  /\ outcome = NoOutcome

Init == ServerInit /\ ClientInit

Next ==
  \/ ActionStart
  \/ ActionForm
  \/ ActionResume

Spec == Init /\ [][Next]_vars

ClientNext ==
  \/ AddThing
  \/ HandleToggleCommonThings
  \/ RemoveThing

SpecClient == Init /\ [][ClientNext]_vars

(***************************************************************************)
(* generateRequest on its own: any non-negative head counts.               *)
(***************************************************************************)
Counts == {FromInt(n) : n \in 0..MaxCount}

PromptParams ==
  [ingredientsList : IngredientTexts,
   equipmentList   : EquipmentTexts,
   numAdults       : Counts,
   numChildren     : Counts,
   meal            : {"dinner", "lunch"}]

PromptInit ==
  /\ pc = "idle"
  /\ request = NoRequest
  /\ formData = <<>>
  /\ params \in PromptParams
  /\ peopleStrings = ""
  /\ aiRequest = ""
  /\ sent = <<>>
  /\ result = NotReturned
  /\ errLog = 0
  /\ outcome = NoOutcome
  /\ ClientInit

\* Lines 30-55: one call of generateRequest(params).
Build ==
  /\ pc = "idle"
  /\ pc' = "built"
  /\ peopleStrings' = PeopleStrings(params.numAdults, params.numChildren)
  /\ aiRequest' = GenerateRequest(params)
  /\ UNCHANGED <<request, formData, params, sent, result, errLog, outcome>>
  /\ UNCHANGED clientVars

PromptNext == Build

SpecPrompt == PromptInit /\ [][PromptNext]_vars

(***************************************************************************)
(* Properties of the action (checked under Spec).                          *)
(***************************************************************************)
FieldEmptyOrMissing(name) ==
  name \notin DOMAIN formData \/ formData[name] = ""

FieldIs(name, value) == name \in DOMAIN formData /\ formData[name] = value

RejectedOutcome == pc = "returned" /\ result = Null /\ sent = <<>>

\* The request held a form, and the action has read it.
Submitted == request.kind = "form" /\ pc \in {"awaiting", "returned", "threw"}

\* C1: a submission whose ingredientsList or equipmentList is empty or
\* missing returns null and never performs the outbound call, whatever the
\* other fields are.
C1_EmptyListRejected ==
  (/\ Submitted
   /\ \/ FieldEmptyOrMissing("ingredientsList")
      \/ FieldEmptyOrMissing("equipmentList"))
  => RejectedOutcome

C1_Witness ==
  /\ pc = "returned"
  /\ FieldIs("ingredientsList", "Salt, Pepper")
  /\ "equipmentList" \notin DOMAIN formData
  /\ FieldIs("numAdults", <<"1">>)
  /\ result = Null
  /\ sent = <<>>

CoercesToZero(name) ==
  StringToNumber(GetOr(formData, name, <<"0">>)) = Zero

\* C2: a submission whose numAdults and numChildren both coerce to 0 (both
\* missing included) returns null regardless of the other fields, before
\* any prompt is built or any call is made.
C2_ZeroHeadcountRejected ==
  (/\ Submitted
   /\ CoercesToZero("numAdults")
   /\ CoercesToZero("numChildren"))
  => (RejectedOutcome /\ aiRequest = "" /\ peopleStrings = "")

C2_Witness ==
  /\ pc = "returned"
  /\ FieldIs("ingredientsList", "Salt, Pepper")
  /\ FieldIs("equipmentList", "Stove top")
  /\ "numAdults" \notin DOMAIN formData
  /\ "numChildren" \notin DOMAIN formData
  /\ result = Null
  /\ sent = <<>>

NonNegativeInteger(a) ==
  \/ a.kind = "dec" /\ a.e <= 0 /\ a.m >= 0
  \/ a.kind = "bin" /\ a.exp >= 0 /\ ~a.neg

AtLeastOne(a) == a.kind # "nan" /\ ~LessThan(a, One)

\* C3: whenever the action builds the prompt, the params satisfy the
\* RecipeRequestParams invariant: both lists non-empty, numAdults and
\* numChildren non-negative integers, numAdults + numChildren >= 1.
C3_ParamsInvariant ==
  Len(sent) > 0 =>
    /\ params.ingredientsList # ""
    /\ params.equipmentList # ""
    /\ NonNegativeInteger(params.numAdults)
    /\ NonNegativeInteger(params.numChildren)
    /\ AtLeastOne(Add(params.numAdults, params.numChildren))

Letters == {"a"}

HasLetter(t) == \E i \in 1..Len(t) : t[i] \in Letters

IsUnsignedInteger(t) == t # <<>> /\ \A i \in 1..Len(t) : t[i] \in Digits

\* The texts for which parse-or-zero is unambiguous: missing, empty, text
\* with a letter, and unsigned integer literals.
ParseOrZeroDefined(name) ==
  \/ name \notin DOMAIN formData
  \/ formData[name] = <<>>
  \/ HasLetter(formData[name])
  \/ IsUnsignedInteger(formData[name])

ParseOrZero(name) ==
  IF name \in DOMAIN formData /\ IsUnsignedInteger(formData[name])
    THEN BigToInt[DigitsToBig[formData[name]]]
    ELSE 0

\* C4: numAdults and numChildren are coerced by parse-or-zero: a missing,
\* empty or non-numeric text counts as 0 (and is rejected like a head count
\* of 0), a numeric text counts as its integer value.
C4_ParseOrZero ==
  (/\ Submitted
   /\ ParseOrZeroDefined("numAdults")
   /\ ParseOrZeroDefined("numChildren"))
  => /\ (ParseOrZero("numAdults") + ParseOrZero("numChildren") < 1)
          => RejectedOutcome
     /\ Len(sent) > 0
          => /\ params.numAdults = FromInt(ParseOrZero("numAdults"))
             /\ params.numChildren = FromInt(ParseOrZero("numChildren"))

Failed(o) == o.kind = "throw" \/ (o.kind = "response" /\ o.choices = <<>>)

\* C6: when the outbound call of a validated request fails (it throws, or
\* the response is malformed, such as an empty choices array), the action
\* returns null, logs the failure exactly once, and lets no exception out.
C6_FailureIsNull ==
  (/\ pc \in {"returned", "threw"}
   /\ Len(sent) > 0
   /\ Failed(outcome))
  => (pc = "returned" /\ result = Null /\ errLog = 1)

ExpectedText(choice) ==
  IF "message" \in DOMAIN choice /\ "content" \in DOMAIN choice["message"]
    THEN choice["message"]["content"]
    ELSE ""

\* C7: when the call returns a response with at least one choice, the
\* action returns { generatedOutput: text } with the first choice's message
\* content, and text is "" (the result still present) when that message or
\* its content is missing or empty.
C7_FirstChoiceContent ==
  (/\ pc \in {"returned", "threw"}
   /\ outcome.kind = "response"
   /\ Len(outcome.choices) >= 1)
  => /\ pc = "returned"
     /\ result.kind = "object"
     /\ result.generatedOutput = ExpectedText(outcome.choices[1])

C7_Witness ==
  /\ pc = "returned"
  /\ outcome = [kind |-> "response", choices |-> <<"message" :> <<>>>>]
  /\ result = Generated("")

ValidationRejected == result = Null /\ Len(sent) = 0 /\ errLog = 0

SuccessWithText == result.kind = "object" /\ Len(sent) = 1 /\ errLog = 0

UpstreamFailure == result = Null /\ Len(sent) = 1 /\ errLog = 1

\* C8: an invocation ends in exactly one of validation-rejected (null, no
\* call), success-with-text (present result, one call) and upstream-failure
\* (null, one call); the call is never issued more than once, and once
\* issued it can always return or throw into one of these outcomes.
C8_ThreeOutcomes ==
  /\ Len(sent) <= 1
  /\ pc \in {"idle", "reading", "awaiting", "returned"}
  /\ pc = "awaiting" => ENABLED ActionResume
  /\ pc = "returned" =>
       Cardinality({k \in {"rejected", "success", "failure"} :
                      \/ k = "rejected" /\ ValidationRejected
                      \/ k = "success" /\ SuccessWithText
                      \/ k = "failure" /\ UpstreamFailure}) = 1

\* The check of step 2 of the orchestrator, on the coerced fields.
PassesValidation(c) ==
  /\ c.ingredientsList # ""
  /\ c.equipmentList # ""
  /\ ~LessThan(Add(c.numAdults, c.numChildren), One)

\* Some pre \o part \o post is the text.
Contains(text, pre, part, post) == text = pre \o part \o post

\* C9: the one outbound request of a validated submission carries the fixed
\* model identifier and two messages, the system message with ROLE and then
\* the user message with generateRequest(params) of the coerced params: a
\* text holding the submitted ingredientsList, equipmentList, the meal name
\* and the household clause verbatim, and the fallback sentence.
C9_RequestShape ==
  (Submitted /\ PassesValidation(Coerce(formData)))
  => /\ Len(sent) = 1
     /\ LET req    == sent[1]
            c      == Coerce(formData)
            text   == req.messages[2].content
            ing    == formData["ingredientsList"]
            eq     == formData["equipmentList"]
            meal   == GetOr(formData, "mealName", "dinner")
            clause == PeopleStrings(c.numAdults, c.numChildren)
        IN  /\ req.model = "gpt-3.5-turbo"
            /\ Len(req.messages) = 2
            /\ req.messages[1] = [role |-> "system", content |-> ROLE]
            /\ req.messages[2].role = "user"
            /\ text = GenerateRequest(c)
            /\ text = aiRequest
            /\ Contains(text, TplIngredients, ing,
                        TplEquipment \o eq \o TplMeal \o meal \o TplFor
                        \o clause \o TplUsage \o TplFallback)
            /\ Contains(text, TplIngredients \o ing \o TplEquipment, eq,
                        TplMeal \o meal \o TplFor \o clause \o TplUsage
                        \o TplFallback)
            /\ Contains(text,
                        TplIngredients \o ing \o TplEquipment \o eq
                        \o TplMeal,
                        meal, TplFor \o clause \o TplUsage \o TplFallback)
            /\ Contains(text,
                        TplIngredients \o ing \o TplEquipment \o eq
                        \o TplMeal \o meal \o TplFor,
                        clause, TplUsage \o TplFallback)
            /\ Contains(text,
                        TplIngredients \o ing \o TplEquipment \o eq
                        \o TplMeal \o meal \o TplFor \o clause \o TplUsage,
                        TplFallback, "")

C9_Witness ==
  /\ pc = "awaiting"
  /\ FieldIs("ingredientsList", "Salt, Pepper")
  /\ FieldIs("equipmentList", "Stove top")
  /\ FieldIs("numAdults", <<"1">>)
  /\ FieldIs("numChildren", <<"0">>)
  /\ "mealName" \notin DOMAIN formData
  /\ sent[1].messages[2].content =
       "Try to create a recipe with only these available ingredients: Salt, Pepper.\n  And available equipment: Stove top.\n  This is for a dinner for 1 adult.\n  Not all ingredients or equipment need to be used. Do not assume I have other equipment or that I have any other ingredients.\n  If there's no viable recipe, such as the ingredients list doesn't include any protein,\n  do not assume I have other ingredients or equipment and tell me that there's no recipe."

(***************************************************************************)
(* Property of generateRequest (checked under SpecPrompt).                 *)
(***************************************************************************)
ExpectedAdults(n) ==
  IF n = 0 THEN "" ELSE IF n = 1 THEN "1 adult" ELSE ToString(n) \o " adults"

ExpectedChildren(n) ==
  IF n = 0 THEN "" ELSE IF n = 1 THEN "1 child"
  ELSE ToString(n) \o " children"

\* C5: for non-negative integers the household clause is "1 adult" /
\* "N adults" / nothing, then "1 child" / "N children" / nothing, joined by
\* " and " exactly when both counts are positive, and empty when both are 0.
C5_HouseholdClause ==
  pc = "built" =>
    LET a == params.numAdults.m
        c == params.numChildren.m
    IN  /\ peopleStrings =
             ExpectedAdults(a)
             \o (IF a > 0 /\ c > 0 THEN " and " ELSE "")
             \o ExpectedChildren(c)
        /\ (a = 0 /\ c = 0) => peopleStrings = ""
        /\ aiRequest =
             TplIngredients \o params.ingredientsList
             \o TplEquipment \o params.equipmentList
             \o TplMeal \o params.meal
             \o TplFor \o peopleStrings \o TplUsage \o TplFallback

C5_Witness ==
  /\ pc = "built"
  /\ params.numAdults = FromInt(2)
  /\ params.numChildren = FromInt(3)
  /\ peopleStrings = "2 adults and 3 children"

(***************************************************************************)
(* Property of the client form state (checked under SpecClient).           *)
(***************************************************************************)
NonCommon(things, type) ==
  SelectSeq(things, LAMBDA x : ~Has(CommonThings(type), x))

OtherType(type) == IF type = "ingredient" THEN "equipment" ELSE "ingredient"

C10Step ==
  LET t       == lastOp'.type
      common  == CommonThings(t)
      beforeT == ThingsOf(t, ingredients, equipment)
      afterT  == ThingsOf(t, ingredients', equipment')
  IN  /\ lastOp'.op = "toggle" =>
           /\ ~checked'[t] =>
                \A i \in 1..Len(common) : ~Has(afterT, common[i])
           /\ checked'[t] =>
                \A i \in 1..Len(common) : Has(afterT, common[i])
           /\ NonCommon(afterT, t) = NonCommon(beforeT, t)
           /\ ThingsOf(OtherType(t), ingredients', equipment')
                = ThingsOf(OtherType(t), ingredients, equipment)
      /\ (/\ lastOp'.op = "add"
          /\ (lastOp'.thing = "" \/ Has(beforeT, lastOp'.thing)))
           => (ingredients' = ingredients /\ equipment' = equipment)

\* C10: after any sequence of add, remove and toggle, a toggle to unchecked
\* leaves the set without any common item (hand-added ones included), a
\* toggle to checked leaves it with every common item, both leave the
\* non-common items of the set and the other set unchanged; adding an
\* empty or already-present string changes nothing.
C10_ToggleAndAddFrame == [][C10Step]_vars

C10_Witness ==
  /\ lastOp.op = "toggle"
  /\ lastOp.type = "ingredient"
  /\ ~checked["ingredient"]
  /\ <<"ingredient", "Salt">> \in added
  /\ ~Has(ingredients, "Salt")
  /\ Has(ingredients, "tofu")
  /\ equipment = COMMON_EQUIPMENT

====
